---------------------------- MODULE Spec2Model ----------------------------
(***************************************************************************)
(* Model of the homework-status Telegram bot (homework.py, exceptions.py). *)
(*                                                                         *)
(* The control loop of main() is a state machine over the positions of     *)
(* the loop body; get_api_answer, check_response, parse_status,            *)
(* send_message and check_tokens are operators computed as the code        *)
(* computes them.  Python values are tagged records, exceptions are        *)
(* records of a class name and a message, and a message is the sequence    *)
(* of the parts an f-string puts together.                                 *)
(***************************************************************************)
EXTENDS Integers, Sequences, FiniteSets, TLC

VARIABLES
    pc,         \* position of main(): see PcValues
    tokens,     \* PRACTICUM_TOKEN, TELEGRAM_TOKEN, TELEGRAM_CHAT_ID
    timestamp,  \* main's local `timestamp` (the cursor)
    response,   \* main's local `response`
    homeworks,  \* main's local `homeworks`
    error,      \* the exception in flight in main(), or NoExc
    exitStatus, \* process exit status once main() has ended, else -1
    from_date,  \* params['from_date'] of the last request issued
    trace,      \* calls made by the latest loop iteration, in order
    call,       \* a single call of one function (function-level checks)
    lastNotice  \* the text the loop body of the iteration before the latest
                \* gave to send_message, <<>> when it sent nothing

vars == <<pc, tokens, timestamp, response, homeworks, error, exitStatus,
          from_date, trace, call, lastNotice>>

---------------------------------------------------------------------------
(* Bounds of the model.                                                    *)

\* longest `homeworks` list a response carries
MaxHomeworks == 2

---------------------------------------------------------------------------
(* Python values.                                                          *)

PyNone == [t |-> "NoneType", n |-> 0, s |-> ""]
PyInt(i) == [t |-> "int", n |-> i, s |-> ""]
PyStr(x) == [t |-> "str", n |-> 0, s |-> x]
\* some list value: unhashable, so it cannot be looked up in a dict
PyList == [t |-> "list", n |-> 0, s |-> ""]
\* a local variable that has not been assigned yet
Unbound == [t |-> "unbound", n |-> 0, s |-> ""]

\* bool(v), as all([...]) and `if homeworks:` take it
Truthy(v) ==
    CASE v.t = "NoneType" -> FALSE
      [] v.t = "int" -> v.n # 0
      [] v.t = "str" -> v.s # ""
      [] OTHER -> TRUE

RETRY_PERIOD == 600
HTTP_OK == 200

\* (defect: the texts of 'approved' and 'rejected' exchanged)
HOMEWORK_VERDICTS_Exchanged ==
    [approved |-> "Rabota proverena: u revyuera est zamechaniya.",
     reviewing |-> "Rabota vzyata na proverku revyuerom.",
     rejected |-> "Rabota proverena: revyueru vsyo ponravilos. Ura!"]

HOMEWORK_VERDICTS ==
    [approved |-> "Rabota proverena: revyueru vsyo ponravilos. Ura!",
     reviewing |-> "Rabota vzyata na proverku revyuerom.",
     rejected |-> "Rabota proverena: u revyuera est zamechaniya."]

NoNewStatuses == <<PyStr("Net novyh statusov")>>

---------------------------------------------------------------------------
(* Exceptions: the classes of exceptions.py and the library classes the    *)
(* except clauses of homework.py name.                                     *)

\* (defect: ConnectionError declared beside GeneralError, not under it)
Bases_ConnectionErrorApart(cls) ==
    CASE cls = "CommonError" -> {"Exception"}
      [] cls = "GeneralError" -> {"Exception"}
      [] cls = "ConnectionError" -> {"Exception"}
      [] cls = "WrongStatusCodeError" -> {"GeneralError"}
      [] cls = "MessageNotSentError" -> {"GeneralError"}
      [] cls = "KeyError" -> {"Exception"}
      [] cls = "TypeError" -> {"Exception"}
      [] cls = "JSONDecodeError" -> {"Exception"}
      [] cls = "RequestException" -> {"Exception"}
      [] cls = "RequestsJSONDecodeError" -> {"JSONDecodeError", "RequestException"}
      [] cls = "TelegramError" -> {"Exception"}
      [] OTHER -> {}

Bases(cls) ==
    CASE cls = "CommonError" -> {"Exception"}
      [] cls = "GeneralError" -> {"Exception"}
      [] cls = "ConnectionError" -> {"GeneralError"}
      [] cls = "WrongStatusCodeError" -> {"GeneralError"}
      [] cls = "MessageNotSentError" -> {"GeneralError"}
      [] cls = "KeyError" -> {"Exception"}
      [] cls = "TypeError" -> {"Exception"}
      [] cls = "JSONDecodeError" -> {"Exception"}
      [] cls = "RequestException" -> {"Exception"}
      \* requests' own decode error derives from both
      [] cls = "RequestsJSONDecodeError" -> {"JSONDecodeError", "RequestException"}
      [] cls = "TelegramError" -> {"Exception"}
      [] OTHER -> {}

RECURSIVE IsInstance(_, _)
IsInstance(cls, of) ==
    \/ cls = of
    \/ \E b \in Bases(cls) : IsInstance(b, of)

NoExc == [type |-> "", text |-> <<>>]
Exc(cls, text) == [type |-> cls, text |-> text]

\* what a call gives back: a value, or an exception raised
Return(val) == [ok |-> TRUE, val |-> val, exc |-> NoExc]
Raise(cls, text, noval) == [ok |-> FALSE, val |-> noval, exc |-> Exc(cls, text)]

---------------------------------------------------------------------------
(* The data of one request: a homework entry, a parsed body, an HTTP       *)
(* exchange.                                                               *)

\* a dict entry of the homeworks list; an absent key has no value
Homework(hasName, name, hasStatus, status) ==
    [t |-> "dict",
     hasName |-> hasName, name |-> IF hasName THEN name ELSE "",
     hasStatus |-> hasStatus, status |-> IF hasStatus THEN status ELSE Unbound]
\* an entry of the homeworks list that is a number, not a dict
IntEntry ==
    [t |-> "int", hasName |-> FALSE, name |-> "",
     hasStatus |-> FALSE, status |-> Unbound]

\* the value under the 'homeworks' key: a list of entries, or another type
ListOf(items) == [t |-> "list", items |-> items]
NotAList == [t |-> "dict", items |-> <<>>]
NoHomeworks == [t |-> "unbound", items |-> <<>>]

\* a parsed body that is a dict; an absent key has no value
Body(hasHomeworks, hws, hasDate, date) ==
    [t |-> "dict",
     hasHomeworks |-> hasHomeworks,
     homeworks |-> IF hasHomeworks THEN hws ELSE NoHomeworks,
     hasDate |-> hasDate, date |-> IF hasDate THEN date ELSE Unbound]
\* a parsed body of another JSON type
NonDictBody(type) ==
    [t |-> type, hasHomeworks |-> FALSE, homeworks |-> NoHomeworks,
     hasDate |-> FALSE, date |-> Unbound]
UnboundResponse == NonDictBody("unbound")

\* (defect: the key misspelt, so that get() finds nothing)
GetCurrentDate_Typo(resp) == PyNone

\* dict.get(key): None when the key is absent
GetCurrentDate(resp) == IF resp.hasDate THEN resp.date ELSE PyNone

\* what requests.get meets: a transport failure, or an HTTP response with a
\* status code and a body that json() can or cannot parse
TransportFailure ==
    [transport |-> "error", status |-> 0, parseable |-> FALSE,
     body |-> UnboundResponse]
HttpResponse(status, parseable, body) ==
    [transport |-> "ok", status |-> status, parseable |-> parseable,
     body |-> IF status = HTTP_OK /\ parseable THEN body ELSE UnboundResponse]

---------------------------------------------------------------------------
(* The functions of homework.py.                                           *)

\* homework.py: check_tokens
check_tokens(toks) ==
    Truthy(toks.practicum) /\ Truthy(toks.telegram) /\ Truthy(toks.chat_id)

\* homework.py: the try body of get_api_answer (lines 64-77)
RequestAndParse(ts, stim) ==
    IF stim.transport = "error"
    THEN Raise("RequestException", <<PyStr("transport")>>, UnboundResponse)
    ELSE IF stim.status # HTTP_OK
    THEN Raise("WrongStatusCodeError",
               <<PyStr("Poluchen neozhidannyj otvet ot servera"),
                 PyInt(HTTP_OK), PyInt(stim.status), ts>>,
               UnboundResponse)
    ELSE IF ~stim.parseable
    THEN Raise("RequestsJSONDecodeError", <<PyStr("json")>>, UnboundResponse)
    ELSE Return(stim.body)

\* (defect: the except clauses in the other order)
get_api_answer_ExceptOrder(ts, stim) ==
    LET r == RequestAndParse(ts, stim) IN
    IF r.ok THEN r
    ELSE IF IsInstance(r.exc.type, "RequestException")
    THEN Raise("ConnectionError",
               <<PyStr("Oshibka soedineniya")>> \o r.exc.text \o <<ts>>,
               UnboundResponse)
    ELSE IF IsInstance(r.exc.type, "JSONDecodeError")
    THEN Raise("GeneralError",
               <<PyStr("Ne udalos poluchit json iz otveta")>> \o r.exc.text
                   \o <<ts>>,
               UnboundResponse)
    ELSE r

\* homework.py: get_api_answer; the except clauses are tried in order
get_api_answer(ts, stim) ==
    LET r == RequestAndParse(ts, stim) IN
    IF r.ok THEN r
    ELSE IF IsInstance(r.exc.type, "JSONDecodeError")
    THEN Raise("GeneralError",
               <<PyStr("Ne udalos poluchit json iz otveta")>> \o r.exc.text
                   \o <<ts>>,
               UnboundResponse)
    ELSE IF IsInstance(r.exc.type, "RequestException")
    THEN Raise("ConnectionError",
               <<PyStr("Oshibka soedineniya")>> \o r.exc.text \o <<ts>>,
               UnboundResponse)
    ELSE r

\* (defect: the current_date key is not looked for)
check_response_NoDateCheck(resp) ==
    IF resp.t # "dict"
    THEN Raise("TypeError",
               <<PyStr("Otvet vernulsya ne v vide slovarya"), PyStr(resp.t)>>,
               <<>>)
    ELSE IF ~resp.hasHomeworks
    THEN Raise("KeyError", <<PyStr("Klyucha homeworks net v slovare")>>, <<>>)
    ELSE IF resp.homeworks.t # "list"
    THEN Raise("TypeError",
               <<PyStr("Zapros k serveru prishyol ne v vide spiska"),
                 PyStr(resp.homeworks.t)>>,
               <<>>)
    ELSE Return(resp.homeworks.items)

\* homework.py: check_response
check_response(resp) ==
    IF resp.t # "dict"
    THEN Raise("TypeError",
               <<PyStr("Otvet vernulsya ne v vide slovarya"), PyStr(resp.t)>>,
               <<>>)
    ELSE IF ~resp.hasHomeworks
    THEN Raise("KeyError", <<PyStr("Klyucha homeworks net v slovare")>>, <<>>)
    ELSE IF ~resp.hasDate
    THEN Raise("KeyError", <<PyStr("Klyucha current_date net v slovare")>>, <<>>)
    ELSE IF resp.homeworks.t # "list"
    THEN Raise("TypeError",
               <<PyStr("Zapros k serveru prishyol ne v vide spiska"),
                 PyStr(resp.homeworks.t)>>,
               <<>>)
    ELSE Return(resp.homeworks.items)

\* (defect: `if not homework_status` in place of `is None`)
parse_status_Falsy(hw) ==
    IF hw.t # "dict"
    THEN Raise("TypeError", <<PyStr("argument is not iterable"), PyStr(hw.t)>>,
               <<>>)
    ELSE IF ~hw.hasName
    THEN Raise("KeyError",
               <<PyStr("Klyuch homework_name ne obnaruzhen v slovare")>>, <<>>)
    ELSE IF ~hw.hasStatus
    THEN Raise("KeyError",
               <<PyStr("Klyuch status ne obnaruzhen v slovare")>>, <<>>)
    ELSE IF ~Truthy(hw.status)
    THEN Raise("CommonError",
               <<PyStr("Status domashnej raboty ne byl poluchen.")>>, <<>>)
    ELSE IF hw.status.t = "list"
    THEN Raise("TypeError", <<PyStr("unhashable type"), PyStr(hw.status.t)>>,
               <<>>)
    ELSE IF ~(hw.status.t = "str" /\ hw.status.s \in DOMAIN HOMEWORK_VERDICTS)
    THEN Raise("CommonError",
               <<PyStr("Status ne obnaruzhen v spiske ozhidaemyh.")>>, <<>>)
    ELSE Return(<<PyStr("Izmenilsya status proverki raboty"), PyStr(hw.name),
                  PyStr(HOMEWORK_VERDICTS[hw.status.s])>>)

\* homework.py: parse_status
parse_status(hw) ==
    IF hw.t # "dict"
    THEN \* `'homework_name' not in homeworks` on a number
         Raise("TypeError", <<PyStr("argument is not iterable"), PyStr(hw.t)>>,
               <<>>)
    ELSE IF ~hw.hasName
    THEN Raise("KeyError",
               <<PyStr("Klyuch homework_name ne obnaruzhen v slovare")>>, <<>>)
    ELSE IF ~hw.hasStatus
    THEN Raise("KeyError",
               <<PyStr("Klyuch status ne obnaruzhen v slovare")>>, <<>>)
    ELSE IF hw.status = PyNone
    THEN Raise("CommonError",
               <<PyStr("Status domashnej raboty ne byl poluchen.")>>, <<>>)
    ELSE IF hw.status.t = "list"
    THEN \* `homework_status not in HOMEWORK_VERDICTS` hashes the status
         Raise("TypeError", <<PyStr("unhashable type"), PyStr(hw.status.t)>>,
               <<>>)
    ELSE IF ~(hw.status.t = "str" /\ hw.status.s \in DOMAIN HOMEWORK_VERDICTS)
    THEN Raise("CommonError",
               <<PyStr("Status ne obnaruzhen v spiske ozhidaemyh.")>>, <<>>)
    ELSE Return(<<PyStr("Izmenilsya status proverki raboty"), PyStr(hw.name),
                  PyStr(HOMEWORK_VERDICTS[hw.status.s])>>)

\* (defect: the exception raised with the message as it came in)
send_message_BareText(message, sent, chat_id) ==
    IF sent = "ok"
    THEN Return(PyNone)
    ELSE Raise("MessageNotSentError", message, PyNone)

\* homework.py: send_message; `sent` is what bot.send_message does
send_message(message, sent, chat_id) ==
    IF sent = "ok"
    THEN Return(PyNone)
    ELSE Raise("MessageNotSentError",
               <<PyStr("Oshibka otpravki soobshcheniya"), PyStr(sent), chat_id>>
                   \o message,
               PyNone)

---------------------------------------------------------------------------
(* The inputs the environment supplies.                                    *)

\* os.getenv gives None for an unset variable, else its (maybe empty) text
TokenValues == {PyNone, PyStr(""), PyStr("secret")}
Tokens == [practicum : TokenValues, telegram : TokenValues, chat_id : TokenValues]

\* int(time.time()) at startup
Clock == {PyInt(1500)}

\* what bot.send_message does: returns, or raises a TelegramError
SendOutcomes == {"ok", "TelegramError"}

Names == {"X", "Y"}
StatusValues ==
    {PyNone, PyStr(""), PyStr("approved"), PyStr("reviewing"),
     PyStr("rejected"), PyStr("graded"), PyInt(5), PyList}

\* every entry parse_status is applied to on its own
Homeworks ==
    {Homework(hn, n, hs, st) :
        hn \in BOOLEAN, n \in Names, hs \in BOOLEAN, st \in StatusValues}
    \cup {IntEntry}

\* the entries a response of the loop carries first ...
FirstHomeworks ==
    {Homework(TRUE, "X", TRUE, PyStr("approved")),
     Homework(TRUE, "Y", TRUE, PyStr("rejected")),
     Homework(TRUE, "X", TRUE, PyStr("graded")),
     Homework(TRUE, "X", TRUE, PyNone),
     Homework(TRUE, "X", FALSE, PyNone),
     Homework(FALSE, "X", TRUE, PyStr("approved")),
     IntEntry}
\* ... and after the first
OtherHomeworks == {Homework(TRUE, "Z", TRUE, PyStr("reviewing"))}

RECURSIVE SeqsUpTo(_, _)
SeqsUpTo(S, n) ==
    IF n = 0 THEN {<<>>}
    ELSE LET shorter == SeqsUpTo(S, n - 1)
         IN  shorter \cup {Append(q, x) : q \in shorter, x \in S}

HomeworkLists ==
    {<<>>} \cup
    {<<first>> \o rest :
        first \in FirstHomeworks, rest \in SeqsUpTo(OtherHomeworks, MaxHomeworks - 1)}

\* the values a response has under 'current_date'
ServerDates == {PyInt(1000), PyInt(2000), PyNone}

\* the values a malformed response has under 'homeworks'
FewHomeworks ==
    {ListOf(<<>>), ListOf(<<Homework(TRUE, "X", TRUE, PyStr("approved"))>>),
     NotAList}

\* the parsed bodies json() returns: both keys and a list; a key missing
\* or 'homeworks' not a list; not a dict at all
Bodies ==
    {Body(TRUE, ListOf(l), TRUE, d) : l \in HomeworkLists, d \in ServerDates}
    \cup {Body(hh, hws, hd, d) :
            hh \in BOOLEAN, hws \in FewHomeworks, hd \in BOOLEAN,
            d \in ServerDates}
    \cup {NonDictBody("list"), NonDictBody("NoneType")}

StatusCodes == {HTTP_OK, 503}

Stimuli ==
    {TransportFailure}
    \cup {HttpResponse(code, p, b) :
            code \in StatusCodes, p \in BOOLEAN, b \in Bodies}

---------------------------------------------------------------------------
(* main(): the positions of the loop body and the steps between them.      *)

PcValues ==
    {"start", "fetch", "validate", "notify", "advance", "except", "finally",
     "exited", "crashed"}

\* one call made by the loop: the function, how it ended ("ok" or the class
\* of the exception raised), and for send_message the text it was given
Called(op, r, text) ==
    [op |-> op, out |-> IF r.ok THEN "ok" ELSE r.exc.type, text |-> text]

NoCall == [fn |-> "", done |-> FALSE]

Init ==
    /\ pc = "start"
    /\ tokens \in Tokens
    /\ timestamp = Unbound
    /\ response = UnboundResponse
    /\ homeworks = <<>>
    /\ error = NoExc
    /\ exitStatus = -1
    /\ from_date = Unbound
    /\ trace = <<>>
    /\ call = NoCall
    /\ lastNotice = <<>>

\* lines 138-143: the token check, sys.exit, the first cursor
Start ==
    /\ pc = "start"
    /\ IF ~check_tokens(tokens)
       THEN /\ pc' = "exited"
            /\ exitStatus' = 1
            /\ UNCHANGED timestamp
       ELSE /\ \E now \in Clock : timestamp' = now
            /\ pc' = "fetch"
            /\ UNCHANGED exitStatus
    /\ UNCHANGED <<tokens, response, homeworks, error, from_date, trace, call, lastNotice>>

\* the text of the send_message call that the try body of an iteration
\* made (lines 151, 154): a send with no failed call before it
BodySend(calls) ==
    LET at == {i \in DOMAIN calls :
                 /\ calls[i].op = "send_message"
                 /\ \A j \in 1..(i - 1) : calls[j].out = "ok"}
    IN  IF at = {} THEN <<>> ELSE calls[CHOOSE i \in at : TRUE].text

\* line 147: response = get_api_answer(timestamp)
Fetch ==
    /\ pc = "fetch"
    /\ \E stim \in Stimuli :
         LET r == get_api_answer(timestamp, stim) IN
         /\ from_date' = timestamp
         /\ trace' = <<Called("get_api_answer", r, <<>>)>>
         /\ lastNotice' = BodySend(trace)
         /\ IF r.ok
            THEN /\ response' = r.val
                 /\ pc' = "validate"
                 /\ UNCHANGED error
            ELSE /\ error' = r.exc
                 /\ pc' = "except"
                 /\ UNCHANGED response
    /\ UNCHANGED <<tokens, timestamp, homeworks, exitStatus, call>>

\* line 148: homeworks = check_response(response)
Validate ==
    /\ pc = "validate"
    /\ LET r == check_response(response) IN
       /\ trace' = Append(trace, Called("check_response", r, <<>>))
       /\ IF r.ok
          THEN /\ homeworks' = r.val
               /\ pc' = "notify"
               /\ UNCHANGED error
          ELSE /\ error' = r.exc
               /\ pc' = "except"
               /\ UNCHANGED homeworks
    /\ UNCHANGED <<tokens, timestamp, response, exitStatus, from_date, call, lastNotice>>

\* (defect: the loop goes on although the message did not go out)
Send_GoesOn(before, message, sent, onward) ==
    LET r == send_message(message, sent, tokens.chat_id) IN
    /\ trace' = Append(before, Called("send_message", r, message))
    /\ error' = NoExc
    /\ pc' = onward

\* a send_message call of the loop, appended to the calls `before`; the
\* loop goes on at `onward` when the message went out
Send(before, message, sent, onward) ==
    LET r == send_message(message, sent, tokens.chat_id) IN
    /\ trace' = Append(before, Called("send_message", r, message))
    /\ error' = r.exc
    /\ pc' = IF r.ok THEN onward ELSE "except"

\* (defect: the last entry reported in place of the first)
Reported_Last(hws) == hws[Len(hws)]

\* line 151: homeworks[0]
Reported(hws) == hws[1]

\* (defect: a status text equal to the one of the iteration before is
\* not sent again)
Notify_SkipRepeat ==
    /\ pc = "notify"
    /\ IF Len(homeworks) > 0
       THEN LET m == parse_status(Reported(homeworks))
                parsed == Append(trace, Called("parse_status", m, <<>>))
            IN  IF m.ok
                THEN IF m.val = lastNotice
                     THEN /\ trace' = parsed
                          /\ error' = NoExc
                          /\ pc' = "advance"
                     ELSE \E sent \in SendOutcomes :
                             Send(parsed, m.val, sent, "advance")
                ELSE /\ trace' = parsed
                     /\ error' = m.exc
                     /\ pc' = "except"
       ELSE \E sent \in SendOutcomes :
                Send(trace, NoNewStatuses, sent, "advance")
    /\ UNCHANGED <<tokens, timestamp, response, homeworks, exitStatus,
                   from_date, call, lastNotice>>

\* lines 150-154: the status of the first entry, or 'no new statuses'
Notify ==
    /\ pc = "notify"
    /\ IF Len(homeworks) > 0
       THEN LET m == parse_status(Reported(homeworks))
                parsed == Append(trace, Called("parse_status", m, <<>>))
            IN  IF m.ok
                THEN \E sent \in SendOutcomes :
                        Send(parsed, m.val, sent, "advance")
                ELSE /\ trace' = parsed
                     /\ error' = m.exc
                     /\ pc' = "except"
       ELSE \E sent \in SendOutcomes :
                Send(trace, NoNewStatuses, sent, "advance")
    /\ UNCHANGED <<tokens, timestamp, response, homeworks, exitStatus,
                   from_date, call, lastNotice>>

\* (defect: the cursor taken from the local clock)
Advance_LocalClock ==
    /\ pc = "advance"
    /\ \E now \in Clock : timestamp' = now
    /\ pc' = "finally"
    /\ UNCHANGED <<tokens, response, homeworks, error, exitStatus, from_date,
                   trace, call, lastNotice>>

\* line 155: timestamp = response.get('current_date')
Advance ==
    /\ pc = "advance"
    /\ timestamp' = GetCurrentDate(response)
    /\ pc' = "finally"
    /\ UNCHANGED <<tokens, response, homeworks, error, exitStatus, from_date,
                   trace, call, lastNotice>>

\* (defect: every exception forwarded to the chat)
MustNotify_Every(exc) == IsInstance(exc.type, "Exception")

\* line 157: except exceptions.GeneralError
MustNotify(exc) == IsInstance(exc.type, "GeneralError")

\* lines 157-161: the except clauses of the loop body, tried in order.  An
\* exception raised inside a clause is not offered to the clauses after
\* it: it leaves the try statement once `finally` has run.
HandleError ==
    /\ pc = "except"
    /\ IF MustNotify(error)
       THEN \E sent \in SendOutcomes :
                LET r == send_message(error.text, sent, tokens.chat_id) IN
                /\ trace' = Append(trace, Called("send_message", r, error.text))
                /\ error' = r.exc
       ELSE /\ IsInstance(error.type, "Exception")
            /\ error' = NoExc
            /\ UNCHANGED trace
    /\ pc' = "finally"
    /\ UNCHANGED <<tokens, timestamp, response, homeworks, exitStatus,
                   from_date, call, lastNotice>>

\* line 163: time.sleep(RETRY_PERIOD), then the next iteration, unless an
\* exception is leaving the try statement: then main() ends with it
Sleep ==
    /\ pc = "finally"
    /\ trace' = Append(trace, [op |-> "sleep", out |-> "ok",
                               text |-> <<PyInt(RETRY_PERIOD)>>])
    /\ IF error = NoExc
       THEN /\ pc' = "fetch"
            /\ UNCHANGED exitStatus
       ELSE /\ pc' = "crashed"
            /\ exitStatus' = 1
    /\ UNCHANGED <<tokens, timestamp, response, homeworks, error, from_date,
                   call, lastNotice>>

Next ==
    \/ Start
    \/ Fetch
    \/ Validate
    \/ Notify
    \/ Advance
    \/ HandleError
    \/ Sleep

Spec == Init /\ [][Next]_vars

---------------------------------------------------------------------------
(* Single calls: each function of homework.py applied once to one input.   *)

\* the cursors get_api_answer is called with
Cursors == Clock \cup ServerDates

NoResult == [ok |-> FALSE, val |-> <<>>, exc |-> NoExc]
ACall(fn, args) == [fn |-> fn, args |-> args, done |-> FALSE, result |-> NoResult]

Calls ==
    {ACall("get_api_answer", <<ts, stim>>) : ts \in Cursors, stim \in Stimuli}
    \cup {ACall("check_response", <<b>>) : b \in Bodies}
    \cup {ACall("parse_status", <<hw>>) : hw \in Homeworks}

InitCalls ==
    /\ call \in Calls
    /\ pc = "start"
    /\ tokens = [practicum |-> PyStr("secret"), telegram |-> PyStr("secret"),
                 chat_id |-> PyStr("secret")]
    /\ timestamp = Unbound
    /\ response = UnboundResponse
    /\ homeworks = <<>>
    /\ error = NoExc
    /\ exitStatus = -1
    /\ from_date = Unbound
    /\ trace = <<>>
    /\ lastNotice = <<>>

Finish(result) ==
    /\ ~call.done
    /\ call' = [call EXCEPT !.done = TRUE, !.result = result]
    /\ UNCHANGED <<pc, tokens, timestamp, response, homeworks, error,
                   exitStatus, from_date, trace, lastNotice>>

CallGetApiAnswer ==
    /\ call.fn = "get_api_answer"
    /\ Finish(get_api_answer(call.args[1], call.args[2]))

CallCheckResponse ==
    /\ call.fn = "check_response"
    /\ Finish(check_response(call.args[1]))

CallParseStatus ==
    /\ call.fn = "parse_status"
    /\ Finish(parse_status(call.args[1]))

NextCalls ==
    \/ CallGetApiAnswer
    \/ CallCheckResponse
    \/ CallParseStatus

SpecCalls == InitCalls /\ [][NextCalls]_vars

Done(fn) == call.fn = fn /\ call.done

---------------------------------------------------------------------------
(* Properties of the single functions (checked under SpecCalls).           *)

\* C7: get_api_answer sorts what it meets into four disjoint cases that
\* cover everything: status 200 and a parseable body gives the parsed body;
\* any other status raises WrongStatusCodeError, whatever the body; status
\* 200 and an unparseable body raises GeneralError itself; a transport
\* failure raises ConnectionError.  Every exception raised is a GeneralError.
C7_FetchClassifies ==
    Done("get_api_answer") =>
        LET stim == call.args[2]
            r == call.result
            answered == stim.transport = "ok"
        IN  /\ (answered /\ stim.status = HTTP_OK /\ stim.parseable)
                => (r.ok /\ r.val = stim.body)
            /\ (answered /\ stim.status # HTTP_OK)
                => (~r.ok /\ r.exc.type = "WrongStatusCodeError")
            /\ (answered /\ stim.status = HTTP_OK /\ ~stim.parseable)
                => (~r.ok /\ r.exc.type = "GeneralError")
            /\ ~answered => (~r.ok /\ r.exc.type = "ConnectionError")
            /\ ~r.ok => IsInstance(r.exc.type, "GeneralError")

\* C7 witness: a 503 whose body cannot be parsed either was classified as a
\* wrong status code
C7_Witness ==
    /\ Done("get_api_answer")
    /\ call.args[2].status = 503
    /\ ~call.args[2].parseable
    /\ call.result.exc.type = "WrongStatusCodeError"

\* C7 witness of the decode case
C7_DecodeWitness ==
    /\ Done("get_api_answer")
    /\ call.args[2].status = HTTP_OK
    /\ ~call.args[2].parseable
    /\ call.result.exc.type = "GeneralError"

NotReceived == <<PyStr("Status domashnej raboty ne byl poluchen.")>>
NotRecognized == <<PyStr("Status ne obnaruzhen v spiske ozhidaemyh.")>>
KnownStatus(hw) ==
    hw.hasStatus /\ hw.status.t = "str" /\ hw.status.s \in DOMAIN HOMEWORK_VERDICTS
\* a named dict entry whose status, if any, is a string or None
PlainEntry(hw) ==
    /\ hw.t = "dict"
    /\ hw.hasName
    /\ hw.hasStatus => hw.status.t \in {"str", "NoneType"}

\* C8 as stated: for a named entry whose status is outside the three known
\* codes, parse_status raises CommonError and nothing else: 'not received'
\* for an empty or absent status, 'not recognized' for another unknown one.
C8_AsStated ==
    (Done("parse_status") /\ PlainEntry(call.args[1]) /\ ~KnownStatus(call.args[1]))
    =>  LET hw == call.args[1]
            r == call.result
            emptyOrAbsent == ~hw.hasStatus \/ hw.status \in {PyNone, PyStr("")}
        IN  /\ ~r.ok
            /\ r.exc.type = "CommonError"
            /\ r.exc.text = IF emptyOrAbsent THEN NotReceived ELSE NotRecognized

\* C8 amended: for a named entry, an absent status key raises KeyError; a
\* status of None raises CommonError 'not received'; any other string or
\* number outside the three known codes, the empty string included, raises
\* CommonError 'not recognized'.
C8_UnknownStatus ==
    (Done("parse_status") /\ call.args[1].t = "dict" /\ call.args[1].hasName
        /\ ~KnownStatus(call.args[1]))
    =>  LET hw == call.args[1]
            r == call.result
        IN  /\ ~r.ok
            /\ ~hw.hasStatus => r.exc.type = "KeyError"
            /\ (hw.hasStatus /\ hw.status = PyNone)
                => r.exc = Exc("CommonError", NotReceived)
            /\ (hw.hasStatus /\ hw.status.t \in {"str", "int"})
                => r.exc = Exc("CommonError", NotRecognized)

\* C8 witness: the empty string was reported as not recognized
C8_Witness ==
    /\ Done("parse_status")
    /\ call.args[1].hasName
    /\ call.args[1].hasStatus
    /\ call.args[1].status = PyStr("")
    /\ call.result.exc = Exc("CommonError", NotRecognized)

\* the response is a dict with both keys and a list under 'homeworks'
WellFormed(resp) ==
    resp.t = "dict" /\ resp.hasHomeworks /\ resp.hasDate
        /\ resp.homeworks.t = "list"

\* C9: check_response returns the homeworks list as it is exactly when the
\* response is a dict with both keys and homeworks is a list; otherwise it
\* raises TypeError (not a dict; homeworks not a list) or KeyError (a key
\* missing) and returns nothing.
C9_ValidateReturnsList ==
    Done("check_response") =>
        LET resp == call.args[1]
            r == call.result
        IN  /\ r.ok <=> WellFormed(resp)
            /\ r.ok => r.val = resp.homeworks.items
            /\ ~r.ok => r.val = <<>> /\ r.exc.type \in {"TypeError", "KeyError"}
            /\ resp.t # "dict" => r.exc.type = "TypeError"
            /\ (resp.t = "dict" /\ ~(resp.hasHomeworks /\ resp.hasDate))
                => r.exc.type = "KeyError"
            /\ (resp.t = "dict" /\ resp.hasHomeworks /\ resp.hasDate
                    /\ resp.homeworks.t # "list")
                => r.exc.type = "TypeError"

\* C9 witness: a list of two entries came back as it was
C9_Witness ==
    /\ Done("check_response")
    /\ call.result.ok
    /\ Len(call.result.val) = 2
    /\ call.result.val = call.args[1].homeworks.items

\* C9 witness of a refusal: current_date missing
C9_MissingDateWitness ==
    /\ Done("check_response")
    /\ call.args[1].hasHomeworks
    /\ ~call.args[1].hasDate
    /\ call.result.exc.type = "KeyError"

\* C12: for an entry with a name and one of the three known codes,
\* parse_status returns the fixed text with that entry's name and the
\* verdict of the table for that code.
C12_FormatKnownStatus ==
    (Done("parse_status") /\ call.args[1].t = "dict" /\ call.args[1].hasName
        /\ KnownStatus(call.args[1]))
    =>  LET hw == call.args[1]
            r == call.result
            verdict ==
                CASE hw.status.s = "approved" ->
                        "Rabota proverena: revyueru vsyo ponravilos. Ura!"
                  [] hw.status.s = "reviewing" ->
                        "Rabota vzyata na proverku revyuerom."
                  [] hw.status.s = "rejected" ->
                        "Rabota proverena: u revyuera est zamechaniya."
        IN  /\ r.ok
            /\ r.val = <<PyStr("Izmenilsya status proverki raboty"),
                         PyStr(hw.name), PyStr(verdict)>>

\* C12 witness: the entry named Y with status rejected was formatted
C12_Witness ==
    /\ Done("parse_status")
    /\ call.args[1] = Homework(TRUE, "Y", TRUE, PyStr("rejected"))
    /\ call.result.ok
    /\ call.result.val[2] = PyStr("Y")

---------------------------------------------------------------------------
(* Properties of the loop of main() (checked under Spec).                  *)

CallsOf(op) == SelectSeq(trace, LAMBDA c : c.op = op)
Ran(op) == CallsOf(op) # <<>>
Sends == CallsOf("send_message")
FailedCalls == SelectSeq(trace, LAMBDA c : c.out # "ok")
Parts(text) == {text[i] : i \in DOMAIN text}

\* the try statement of the latest iteration has run its body and handler
CycleOver == trace # <<>> /\ pc \in {"finally", "fetch", "crashed"}
\* ... and get_api_answer, check_response, parse_status (when called) and
\* send_message all returned
Succeeded == CycleOver /\ FailedCalls = <<>>
\* ... or the first call that raised did not raise a GeneralError
LogOnlyFailure ==
    /\ CycleOver
    /\ FailedCalls # <<>>
    /\ ~IsInstance(FailedCalls[1].out, "GeneralError")
FetchFailed == CycleOver /\ trace[1].out # "ok"
Validated == CycleOver /\ Ran("check_response") /\ CallsOf("check_response")[1].out = "ok"

\* C1 as stated: once the tokens are accepted main() never ends, whatever
\* fails in a cycle; a failed send of the error text is only logged.
C1_LoopNeverHalts ==
    (pc # "start" /\ check_tokens(tokens))
        => (pc \notin {"crashed", "exited"} /\ exitStatus = -1)

\* C2: when a cycle succeeded the cursor is the current_date of that
\* cycle's response, and the next request carries it as from_date.
C2_CursorIsServerDate ==
    [][Succeeded =>
        /\ response.hasDate
        /\ timestamp = response.date
        /\ pc = "fetch" => from_date' = response.date]_vars

\* C2 witness: a cycle succeeded on a response dated 1000 and the next
\* request was sent with from_date 1000
C2_Witness ==
    /\ from_date = PyInt(1000)
    /\ pc = "validate"
    /\ trace = <<[op |-> "get_api_answer", out |-> "ok", text |-> <<>>]>>

\* C3: when the failure of a cycle is not a GeneralError (the TypeError or
\* KeyError of check_response, the KeyError or CommonError of parse_status)
\* nothing is sent, the cursor stays, and after the sleep the next request
\* carries the same from_date.
C3_LogOnlyFailure ==
    [][LogOnlyFailure =>
        /\ Sends = <<>>
        /\ timestamp = from_date
        /\ error = NoExc
        /\ pc # "crashed"
        /\ pc = "finally" => pc' = "fetch"
        /\ pc = "fetch" => (trace[Len(trace)].op = "sleep" /\ from_date' = from_date)]_vars

\* C3 witness: the response had no current_date; the cycle is over, slept,
\* with nothing sent
C3_Witness ==
    /\ pc = "fetch"
    /\ LogOnlyFailure
    /\ response.t = "dict" /\ response.hasHomeworks /\ ~response.hasDate
    /\ FailedCalls[1] = [op |-> "check_response", out |-> "KeyError", text |-> <<>>]
    /\ Sends = <<>>

\* C4: when get_api_answer raised, check_response and parse_status were not
\* called, exactly one send was attempted, with the text of that error
\* (for a wrong status: the code received and the code 200), and the
\* cursor stays.
C4_FetchFailure ==
    FetchFailed =>
        /\ IsInstance(trace[1].out, "GeneralError")
        /\ ~Ran("check_response")
        /\ ~Ran("parse_status")
        /\ Len(Sends) = 1
        /\ \E stim \in Stimuli :
              LET r == get_api_answer(from_date, stim) IN
              /\ ~r.ok
              /\ r.exc.type = trace[1].out
              /\ Sends[1].text = r.exc.text
              /\ r.exc.type = "WrongStatusCodeError"
                    => {PyInt(stim.status), PyInt(HTTP_OK)} \subseteq Parts(Sends[1].text)
        /\ timestamp = from_date

\* C4 witness: a 503 was forwarded to the chat
C4_Witness ==
    /\ pc = "fetch"
    /\ FetchFailed
    /\ trace[1].out = "WrongStatusCodeError"
    /\ Len(Sends) = 1
    /\ Sends[1].out = "ok"
    /\ PyInt(503) \in Parts(Sends[1].text)

\* the sends of the loop body, not those of the except clause
Notifications ==
    SelectSeq(Sends,
              LAMBDA c : c.text[1] # PyStr("Oshibka otpravki soobshcheniya"))

\* C5 as stated: when get_api_answer and check_response returned, exactly
\* one send is attempted, with the status text of the first entry or the
\* 'no new statuses' text.
C5_AsStated ==
    Validated =>
        LET items == response.homeworks.items IN
        /\ Len(Notifications) = 1
        /\ Notifications[1].text =
              IF items = <<>> THEN NoNewStatuses ELSE parse_status(items[1]).val

\* C5 amended: when get_api_answer and check_response returned: with an
\* empty list the first send carries 'no new statuses'; with a list whose
\* first entry parse_status accepts, the first send carries that entry's
\* status text, whatever follows the first entry; when parse_status raises,
\* nothing is sent.  The first send is the only one unless it raised
\* MessageNotSentError: then one more send carries that error's text.  When
\* the first send went out the cursor is the response's current_date.
C5_OneNotification ==
    Validated =>
        LET items == response.homeworks.items
            empty == items = <<>>
            m == IF empty THEN Return(NoNewStatuses)
                 ELSE parse_status(Head(items))
        IN  /\ ~empty => Ran("parse_status")
            /\ ~m.ok => Sends = <<>>
            /\ m.ok =>
                /\ Len(Sends) \in {1, 2}
                /\ Sends[1].text = m.val
                /\ Len(Sends) = 2 <=> Sends[1].out = "MessageNotSentError"
                /\ Len(Sends) = 2 =>
                      Sends[2].text =
                          send_message(m.val, "TelegramError", tokens.chat_id).exc.text
                /\ Sends[1].out = "ok" => timestamp = response.date

\* C5 witness (scenario B): an empty list dated 2000 gave one 'no new
\* statuses' message and the cursor 2000
C5_Witness ==
    /\ pc = "fetch"
    /\ response = Body(TRUE, ListOf(<<>>), TRUE, PyInt(2000))
    /\ Sends = <<[op |-> "send_message", out |-> "ok", text |-> NoNewStatuses]>>
    /\ timestamp = PyInt(2000)

\* C5 witness (scenario A, with more entries behind the first): the status
\* of the first entry was sent and the cursor is 1000
C5_FirstEntryWitness ==
    /\ pc = "fetch"
    /\ Validated
    /\ Len(response.homeworks.items) = 2
    /\ response.homeworks.items[1] = Homework(TRUE, "X", TRUE, PyStr("approved"))
    /\ Len(Sends) = 1
    /\ Sends[1].out = "ok"
    /\ Sends[1].text[2] = PyStr("X")
    /\ Sends[1].text[3] = PyStr(HOMEWORK_VERDICTS["approved"])
    /\ timestamp = PyInt(1000)

\* C6 as stated: with a token missing or empty the process exits with a
\* non-zero status before any request, send or sleep; with all three it
\* enters the loop; and that exit is the only way the program ends.
C6_StartupIsOnlyExit ==
    /\ (pc # "start" /\ ~check_tokens(tokens))
          => (pc = "exited" /\ exitStatus = 1 /\ trace = <<>> /\ from_date = Unbound)
    /\ (pc # "start" /\ check_tokens(tokens)) => pc # "exited"
    /\ pc \in {"exited", "crashed"} => (pc = "exited" /\ ~check_tokens(tokens))

IsIntValue(v) == v.t = "int"

\* C10 as stated: the cursor never goes below the from_date of a request
\* already made.
C10_AsStated ==
    (IsIntValue(from_date) /\ IsIntValue(timestamp)) => timestamp.n >= from_date.n

\* C10 amended: the cursor differs from the from_date of the latest request
\* only after a cycle that succeeded, and is then the current_date of that
\* cycle's response: it goes down (or to None) exactly when the server
\* reports such a current_date in a cycle that succeeds.
C10_CursorMovesOnlyToServerDate ==
    (from_date # Unbound /\ timestamp # from_date)
        => (Succeeded /\ timestamp = response.date)

\* C10 witness: the cursor went from 2000 back to 1000
C10_Witness ==
    /\ from_date = PyInt(2000)
    /\ timestamp = PyInt(1000)
    /\ Succeeded

\* the latest iteration got a response that has no 'current_date' key
DateMissing ==
    /\ CycleOver
    /\ trace[1].out = "ok"
    /\ response.t = "dict"
    /\ ~response.hasDate

\* C11 as stated: when the response has no current_date key the cycle
\* assigns None to the cursor.
C11_AsStated == DateMissing => timestamp = PyNone

\* C11 amended: when the response has no current_date key, check_response
\* raises KeyError (when 'homeworks' is there), nothing is assigned to the
\* cursor and the next request carries the same from_date; the cursor
\* becomes None only when a cycle succeeds on a response whose current_date
\* is None, and the next request then carries None as from_date.
C11_MissingDateKeepsCursor ==
    [][/\ DateMissing =>
            /\ FailedCalls # <<>>
            /\ FailedCalls[1].op = "check_response"
            /\ response.hasHomeworks => FailedCalls[1].out = "KeyError"
            /\ timestamp = from_date
            /\ pc = "fetch" => from_date' = from_date
       /\ (Succeeded /\ response.date = PyNone) =>
            /\ timestamp = PyNone
            /\ pc = "fetch" => from_date' = PyNone
       /\ (CycleOver /\ timestamp = PyNone /\ from_date # PyNone) =>
            (Succeeded /\ response.hasDate /\ response.date = PyNone)]_vars

\* C11 witness: a response with homeworks and without current_date; the
\* cycle is over and slept, the cursor is still the start time
C11_Witness ==
    /\ pc = "fetch"
    /\ DateMissing
    /\ response.hasHomeworks
    /\ from_date = PyInt(1500)
    /\ timestamp = PyInt(1500)

\* C11 witness of the None cursor: a request was sent with from_date None
C11_NoneCursorWitness ==
    /\ pc = "validate"
    /\ from_date = PyNone

\* C13 as stated: every cycle ends with exactly one sleep, on every path,
\* and after the sleep the loop is at the fetch again.
C13_SleepThenFetch ==
    LET slept == Ran("sleep") IN
    /\ (CycleOver /\ pc # "finally") =>
          (Len(CallsOf("sleep")) = 1 /\ trace[Len(trace)].op = "sleep")
    /\ slept => pc = "fetch"
    /\ (pc = "fetch" /\ from_date # Unbound) => slept

\* C14: the loop keeps nothing of earlier cycles but the cursor: when the
\* first entry of a validated response has a name and a known status, and
\* the cycle before sent the status text of an entry with that name and
\* status, the same text is given to send_message again in this cycle.
C14_RepeatIsSentAgain ==
    Validated =>
        LET items == response.homeworks.items IN
        (/\ items # <<>>
         /\ items[1].t = "dict"
         /\ items[1].hasName
         /\ KnownStatus(items[1])
         /\ lastNotice = <<PyStr("Izmenilsya status proverki raboty"),
                           PyStr(items[1].name),
                           PyStr(HOMEWORK_VERDICTS[items[1].status.s])>>)
        => (/\ Notifications # <<>>
            /\ Notifications[1].text = lastNotice)

\* C14 witness: the cycle before gave the text for X/approved to
\* send_message, and this cycle sent that text again
C14_Witness ==
    /\ pc = "fetch"
    /\ Validated
    /\ response.homeworks.items # <<>>
    /\ response.homeworks.items[1] = Homework(TRUE, "X", TRUE, PyStr("approved"))
    /\ Len(lastNotice) = 3
    /\ lastNotice[2] = PyStr("X")
    /\ Len(Sends) = 1
    /\ Sends[1].out = "ok"
    /\ Sends[1].text = lastNotice

\* C15: the cursor is assigned in a cycle exactly when get_api_answer,
\* check_response, parse_status (when called) and send_message all
\* returned, and then with the response's current_date; in every other
\* cycle, a valid response whose notification raised MessageNotSentError
\* included, the cursor stays, and the next request carries the cursor as
\* the cycle left it.
C15_CursorFrame ==
    [][/\ (trace # <<>> /\ ~Succeeded) => timestamp = from_date
       /\ Succeeded => timestamp = response.date
       /\ (CycleOver /\ pc = "fetch") => from_date' = timestamp
       /\ timestamp' # timestamp =>
            (pc = "start" \/ (pc = "advance" /\ FailedCalls = <<>>))]_vars

\* C15 witness: a valid response dated 1000, the notification raised
\* MessageNotSentError, the error text went out, the cycle slept; the
\* cursor is still 1500
C15_Witness ==
    /\ pc = "fetch"
    /\ Validated
    /\ response.date = PyInt(1000)
    /\ Len(Sends) = 2
    /\ Sends[1].out = "MessageNotSentError"
    /\ Sends[2].out = "ok"
    /\ from_date = PyInt(1500)
    /\ timestamp = PyInt(1500)

\* C16: a cycle makes one request, at most one check_response and one
\* parse_status call, and at most two sends; two only when the send of the
\* loop body raised MessageNotSentError, and the second then carries that
\* error's text, which is not the text that failed.  No call that raised is
\* made again with the same arguments.
C16_NothingRetried ==
    trace # <<>> =>
        /\ Len(CallsOf("get_api_answer")) = 1
        /\ Len(CallsOf("check_response")) <= 1
        /\ Len(CallsOf("parse_status")) <= 1
        /\ Len(CallsOf("sleep")) <= 1
        /\ Len(Sends) <= 2
        /\ Len(Sends) = 2 =>
            /\ trace[1].out = "ok"
            /\ Sends[1].out = "MessageNotSentError"
            /\ Sends[1].text = BodySend(trace)
            /\ Sends[2].text =
                  <<PyStr("Oshibka otpravki soobshcheniya"),
                    PyStr("TelegramError"), tokens.chat_id>> \o Sends[1].text
        /\ \A i, j \in DOMAIN trace :
              (i < j /\ trace[i].out # "ok")
                  => ~(trace[j].op = trace[i].op /\ trace[j].text = trace[i].text)

\* C16 witness: both sends of a cycle failed, the second carrying the text
\* of the first one's error
C16_Witness ==
    /\ pc = "crashed"
    /\ Len(CallsOf("get_api_answer")) = 1
    /\ Len(Sends) = 2
    /\ Sends[1].text = NoNewStatuses
    /\ Sends[1].out = "MessageNotSentError"
    /\ Sends[2].out = "MessageNotSentError"
    /\ Sends[2].text # Sends[1].text

====
